---- MODULE Spec2Model ----
(***************************************************************************)
(* mastodon_exporter: the /metrics handler, the two collection passes it   *)
(* runs (collect_instances, collect_accounts), the per-target fetch tasks  *)
(* they spawn (collect_instance, collect_account) and the gauge registry   *)
(* the tasks write and the handler serializes.                             *)
(*                                                                         *)
(* Text (header values, dates) is a sequence of one-character strings.     *)
(***************************************************************************)
EXTENDS Integers, Sequences, FiniteSets, TLC

\* Number of scrape requests served in one behaviour.
MaxScrapes == 2

\* ------------------------------------------------------------------------
\* Text conversions

Digits == {"0", "1", "2", "3", "4", "5", "6", "7", "8", "9"}

DigitVal(c) ==
    CASE c = "0" -> 0 [] c = "1" -> 1 [] c = "2" -> 2 [] c = "3" -> 3
      [] c = "4" -> 4 [] c = "5" -> 5 [] c = "6" -> 6 [] c = "7" -> 7
      [] c = "8" -> 8 [] c = "9" -> 9

\* s[i..j] is a non-empty run of decimal digits.
AllDigits(s, i, j) == i <= j /\ \A k \in i..j : s[k] \in Digits

\* The number s[i..j] writes in base 10.
RECURSIVE DecVal(_, _, _)
DecVal(s, i, j) ==
    IF j < i THEN 0 ELSE 10 * DecVal(s, i, j - 1) + DigitVal(s[j])

\* Option / Result values: None or Err is the empty sequence, Some(x) or
\* Ok(x) the one-element sequence <<x>>.
None == << >>

Some(x) == <<x>>

IsSome(o) == Len(o) = 1

\* A header the response does not carry (headers().get(..) is None).
Missing == <<"(missing)">>

\* str::parse::<i64>: an optional sign, then at least one decimal digit and
\* nothing else.  (Values of the model stay far below the i64 range.)
parse_i64(s) ==
    IF s = Missing \/ Len(s) = 0 THEN None
    ELSE IF s[1] \in {"+", "-"}
         THEN IF AllDigits(s, 2, Len(s))
              THEN Some(IF s[1] = "-" THEN 0 - DecVal(s, 2, Len(s))
                                      ELSE DecVal(s, 2, Len(s)))
              ELSE None
         ELSE IF AllDigits(s, 1, Len(s)) THEN Some(DecVal(s, 1, Len(s))) ELSE None

IsLeap(y) == (y % 4 = 0 /\ y % 100 # 0) \/ y % 400 = 0

DaysInMonth(y, m) ==
    IF m = 2 THEN (IF IsLeap(y) THEN 29 ELSE 28)
    ELSE IF m \in {4, 6, 9, 11} THEN 30 ELSE 31

ValidDate(y, m, d) == m \in 1..12 /\ d >= 1 /\ d <= DaysInMonth(y, m)

\* Days from 1970-01-01 to the proleptic Gregorian date y-m-d.
days_from_epoch(y, m, d) ==
    LET yy  == IF m <= 2 THEN y - 1 ELSE y
        era == yy \div 400
        yoe == yy - era * 400
        mp  == (m + 9) % 12
        doy == (153 * mp + 2) \div 5 + d - 1
        doe == yoe * 365 + yoe \div 4 - yoe \div 100 + doy
    IN  era * 146097 + doe - 719468

\* Position of the first occurrence of c in s at or after i (Len(s)+1 if none).
RECURSIVE Find(_, _, _)
Find(s, c, i) ==
    IF i > Len(s) THEN Len(s) + 1
    ELSE IF s[i] = c THEN i ELSE Find(s, c, i + 1)

\* NaiveDate::parse_from_str(s, "%Y-%m-%d"): year, month and day as decimal
\* numbers separated by '-', month and day of one or two digits, a real
\* calendar date.  Yields Some(<<y, m, d>>) or None.
parse_naive_date(s) ==
    LET p1 == Find(s, "-", 1)
        p2 == Find(s, "-", p1 + 1)
        y  == DecVal(s, 1, p1 - 1)
        m  == DecVal(s, p1 + 1, p2 - 1)
        d  == DecVal(s, p2 + 1, Len(s))
    IN  IF p2 > Len(s) THEN None
        ELSE IF ~(/\ AllDigits(s, 1, p1 - 1) /\ AllDigits(s, p1 + 1, p2 - 1)
                  /\ AllDigits(s, p2 + 1, Len(s))) THEN None
        ELSE IF p1 - 1 > 4 \/ p2 - p1 - 1 > 2 \/ Len(s) - p2 > 2 THEN None
        ELSE IF ~ValidDate(y, m, d) THEN None
        ELSE Some(<<y, m, d>>)

\* midnight_timestamp, were midnight taken in a zone one hour east of UTC.
midnight_timestamp_local(ymd) == days_from_epoch(ymd[1], ymd[2], ymd[3]) * 86400 - 3600

\* .and_hms_opt(0, 0, 0).unwrap().timestamp() of a parsed date.
midnight_timestamp(ymd) == days_from_epoch(ymd[1], ymd[2], ymd[3]) * 86400

\* Length of the fraction ".ddd" starting at position i of s (0 if none).
RECURSIVE DigitRun(_, _)
DigitRun(s, i) ==
    IF i <= Len(s) /\ s[i] \in Digits THEN 1 + DigitRun(s, i + 1) ELSE 0

FractionLen(s, i) ==
    IF i <= Len(s) /\ s[i] = "." /\ DigitRun(s, i + 1) > 0
    THEN 1 + DigitRun(s, i + 1)
    ELSE 0

\* str::parse::<DateTime<Utc>>().timestamp(): an RFC 3339 timestamp
\* YYYY-MM-DDThh:mm:ss[.fraction](Z|+hh:mm|-hh:mm), as seconds since the
\* epoch (the fraction is dropped, the offset subtracted), or None.
parse_rfc3339_timestamp(s) ==
    IF s = Missing \/ Len(s) < 20 THEN None
    ELSE
    LET num(i, j) == DecVal(s, i, j)
        dig(i, j) == AllDigits(s, i, j)
        f   == FractionLen(s, 20)
        z   == 20 + f
        tz  == SubSeq(s, z, Len(s))
        shape ==
            /\ dig(1, 4) /\ s[5] = "-" /\ dig(6, 7) /\ s[8] = "-" /\ dig(9, 10)
            /\ s[11] \in {"T", "t", " "}
            /\ dig(12, 13) /\ s[14] = ":" /\ dig(15, 16) /\ s[17] = ":"
            /\ dig(18, 19)
        zone ==
            \/ (Len(tz) = 1 /\ tz[1] \in {"Z", "z"})
            \/ /\ Len(tz) = 6 /\ tz[1] \in {"+", "-"} /\ tz[4] = ":"
               /\ AllDigits(tz, 2, 3) /\ AllDigits(tz, 5, 6)
               /\ DecVal(tz, 2, 3) <= 23 /\ DecVal(tz, 5, 6) <= 59
        offset ==
            IF Len(tz) = 1 THEN 0
            ELSE LET o == DecVal(tz, 2, 3) * 3600 + DecVal(tz, 5, 6) * 60
                 IN  IF tz[1] = "-" THEN 0 - o ELSE o
    IN  IF ~shape \/ ~zone THEN None
        ELSE IF ~ValidDate(num(1, 4), num(6, 7), num(9, 10)) THEN None
        ELSE IF num(12, 13) > 23 \/ num(15, 16) > 59 \/ num(18, 19) > 59 THEN None
        ELSE Some(days_from_epoch(num(1, 4), num(6, 7), num(9, 10)) * 86400
                  + num(12, 13) * 3600 + num(15, 16) * 60 + num(18, 19) - offset)

\* ------------------------------------------------------------------------
\* What the remote servers may answer

\* x-ratelimit-remaining: absent, not a number, "299", "298".
RemainingHeaders ==
    { Missing, <<"n", "o", "n", "e">>, <<"2", "9", "9">>, <<"2", "9", "8">> }

\* x-ratelimit-reset: absent, not a timestamp, 2022-11-21T00:05:00Z,
\* 2022-11-21T00:10:00.5Z.
ResetHeaders ==
    { Missing,
      <<"s", "o", "o", "n">>,
      <<"2","0","2","2","-","1","1","-","2","1","T","0","0",":","0","5",":","0","0","Z">>,
      <<"2","0","2","2","-","1","1","-","2","1","T","0","0",":","1","0",":","0","0",".","5","Z">> }

Statuses == {200, 304, 404, 500}

\* Response::error_for_status_ref: an error for 4xx and 5xx.
is_error_status(s) == s >= 400 /\ s <= 599

NOT_FOUND == 404

\* What response.json::<InstanceResponse>() yields for the bodies instance
\* `instance` may send: Err for a body serde cannot decode, or the document.
InstanceBodies(instance) ==
    { None } \cup { Some(b) : b \in
    { [domain |-> instance, title |-> "Mastodon", version |-> "4.0.2",
       registrations |-> [enabled |-> TRUE, approval_required |-> FALSE]],
      [domain |-> instance, title |-> "Mastodon", version |-> "4.1.0",
       registrations |-> [enabled |-> FALSE, approval_required |-> TRUE]] } }

\* What response.json::<AccountResponse>() yields: Err, or the document
\* (last_status_at is null for an account that never posted; the third
\* document is of a renamed account and carries no calendar date).
AccountBodies ==
    { None } \cup { Some(b) : b \in
    { [username |-> "alice", followers_count |-> 100, following_count |-> 10,
       statuses_count |-> 5,
       last_status_at |-> Some(<<"2","0","2","2","-","1","1","-","2","1">>)],
      [username |-> "alice", followers_count |-> 101, following_count |-> 11,
       statuses_count |-> 6, last_status_at |-> None],
      [username |-> "alice_", followers_count |-> 101, following_count |-> 11,
       statuses_count |-> 6, last_status_at |-> Some(<<"t","o","d","a","y">>)] } }

\* i64_from_bool, were true converted as an all-ones word.
i64_from_bool_all_ones(b) == IF b THEN 0 - 1 ELSE 0

\* i64::from(bool)
i64_from_bool(b) == IF b THEN 1 ELSE 0

\* ------------------------------------------------------------------------
\* State

VARIABLES
    INSTANCES,  \* static mut INSTANCES: the instance targets, filled by main
    ACCOUNTS,   \* static mut ACCOUNTS: the (instance, account id) targets
    requests,   \* GET /metrics requests the scraper has yet to send
    metrics,    \* the /metrics handler: where it is in metrics(), its locals
    tasks,      \* the spawned fetch tasks, by <<scrape, kind, index>>
    REGISTRY,   \* the gauge vectors: series name -> (label tuple -> value)
    reply       \* the reply to the latest scrape request, once it is sent

vars == <<INSTANCES, ACCOUNTS, requests, metrics, tasks, REGISTRY, reply>>

SeriesNames ==
    { "mastodon_ratelimit_remaining", "mastodon_ratelimit_reset", "mastodon_info",
      "mastodon_registrations_enabled", "mastodon_registrations_approval_required",
      "mastodon_account_followers_count", "mastodon_account_following_count",
      "mastodon_account_statuses_count", "mastodon_account_last_status_at" }

RateLimitSeries == { "mastodon_ratelimit_remaining", "mastodon_ratelimit_reset" }

InstanceSeries ==
    { "mastodon_info", "mastodon_registrations_enabled",
      "mastodon_registrations_approval_required" }

AccountSeries ==
    { "mastodon_account_followers_count", "mastodon_account_following_count",
      "mastodon_account_statuses_count", "mastodon_account_last_status_at" }

\* The fetch tasks scrape c spawns.
TasksOf(c) ==
    { <<c, "instance", i>> : i \in 1..Len(INSTANCES) }
        \cup { <<c, "account", j>> : j \in 1..Len(ACCOUNTS) }

TaskIds == UNION { TasksOf(c) : c \in 1..MaxScrapes }

\* The instance label of task t.
InstanceOf(t) == IF t[2] = "instance" THEN INSTANCES[t[3]] ELSE ACCOUNTS[t[3]][1]

AccountIdOf(t) == ACCOUNTS[t[3]][2]

NoReply == [scrape |-> 0, status |-> 0, body |-> {}]

\* A task not spawned yet (or one whose JoinHandle and result are gone).
NoTask ==
    [pc |-> "unspawned", out |-> "none", why |-> "none", wrote |-> {},
     status |-> 0, body |-> None, gets |-> 0, last |-> {}]

\* Configurations main may load (Config.instance_info, Config.accounts),
\* each with the number of scrape requests that follow: two instances and
\* an account; an instance and two accounts of it; and an instance and an
\* account scraped repeatedly.
Configs ==
    { [instance_info |-> <<"mas.to", "mastodon.social">>,
       accounts |-> << <<"mas.to", "1">> >>,
       requests |-> 1],
      [instance_info |-> <<"mas.to">>,
       accounts |-> << <<"mas.to", "1">>, <<"mas.to", "2">> >>,
       requests |-> 1],
      [instance_info |-> <<"mas.to">>,
       accounts |-> << <<"mas.to", "1">> >>,
       requests |-> MaxScrapes] }

\* Init, were main to create the registration gauges of every configured
\* instance at start-up, with value 0.
Init_preregistered ==
    /\ \E config \in Configs :
          /\ INSTANCES = config.instance_info
          /\ ACCOUNTS = config.accounts
          /\ requests = config.requests
    /\ metrics = [pc |-> "idle", scrape |-> 0, idx |-> 1,
                  instances |-> "none", accounts |-> "none"]
    /\ tasks = [t \in TaskIds |-> NoTask]
    /\ REGISTRY = [n \in SeriesNames |->
                     IF n \in {"mastodon_registrations_enabled",
                               "mastodon_registrations_approval_required"}
                     THEN [l \in { <<INSTANCES[i]>> : i \in 1..Len(INSTANCES) } |-> 0]
                     ELSE [l \in {} |-> 0]]
    /\ reply = NoReply

\* The state once main has registered the gauges and filled the target
\* lists from the configuration file.
Init ==
    /\ \E config \in Configs :
          /\ INSTANCES = config.instance_info
          /\ ACCOUNTS = config.accounts
          /\ requests = config.requests
    /\ metrics = [pc |-> "idle", scrape |-> 0, idx |-> 1,
                  instances |-> "none", accounts |-> "none"]
    /\ tasks = [t \in TaskIds |-> NoTask]
    /\ REGISTRY = [n \in SeriesNames |-> [l \in {} |-> 0]]
    /\ reply = NoReply

\* ------------------------------------------------------------------------
\* The registry

\* set_gauge, were a label tuple to keep the first value written to it.
set_gauge_keep_first(reg, name, labels, v) ==
    [reg EXCEPT ![name] =
        [l \in DOMAIN reg[name] \cup {labels} |->
            IF l \in DOMAIN reg[name] THEN reg[name][l] ELSE v]]

\* IntGaugeVec::with_label_values(labels).set(v): the child of that label
\* tuple is created if it is new, and its value replaced.
set_gauge(reg, name, labels, v) ==
    [reg EXCEPT ![name] =
        [l \in DOMAIN reg[name] \cup {labels} |-> IF l = labels THEN v ELSE reg[name][l]]]

\* TextEncoder::encode(REGISTRY.gather()): one line per series and label
\* tuple, as <<series, labels, value>>.
encode(reg) ==
    UNION { { <<n, l, reg[n][l]>> : l \in DOMAIN reg[n] } : n \in SeriesNames }

\* ------------------------------------------------------------------------
\* Task outcomes

\* The task returns Ok(()) or Err(reqwest::Error); the response and the
\* locals are dropped.
Return(t, result, reason) ==
    [tasks EXCEPT ![t].pc = "done", ![t].out = result, ![t].why = reason,
                  ![t].status = 0, ![t].body = None]

\* An unwrap() of Err / None: the task panics; its JoinHandle yields JoinError.
Panic(t, reason) ==
    [tasks EXCEPT ![t].pc = "done", ![t].out = "Panic", ![t].why = reason,
                  ![t].status = 0, ![t].body = None]

Terminal(t) == tasks[t].pc = "done"

Spawned(t) == tasks[t].pc # "unspawned"

InFlight(t) == Spawned(t) /\ ~Terminal(t)

\* Bookkeeping of the rate-limit gauges: tasks[t].last holds the rate-limit
\* series whose value for the instance of t was last written by t.  ts is the
\* task table after task t wrote series n.
last_writer(ts, t, n) ==
    [u \in TaskIds |->
        IF u = t THEN [ts[u] EXCEPT !.last = @ \cup {n}]
        ELSE IF InstanceOf(u) = InstanceOf(t) THEN [ts[u] EXCEPT !.last = @ \ {n}]
        ELSE ts[u]]

\* ------------------------------------------------------------------------
\* collect_instance: one step per await point and per gauge write

\* collect_instance, were a transport failure reported as an exhausted request
\* budget: the remaining gauge of the instance is set to 0 before the error
\* is returned.
collect_instance_get_zero_remaining(t) ==
    /\ t[2] = "instance" /\ tasks[t].pc = "get"
    /\ \/ /\ REGISTRY' = set_gauge(REGISTRY, "mastodon_ratelimit_remaining",
                                   <<InstanceOf(t)>>, 0)
          /\ tasks' = [Return(t, "Err", "transport") EXCEPT ![t].gets = @ + 1]
       \/ /\ tasks' = [tasks EXCEPT ![t].pc = "remaining", ![t].gets = @ + 1]
          /\ UNCHANGED REGISTRY
    /\ UNCHANGED <<INSTANCES, ACCOUNTS, requests, metrics, reply>>

\* reqwest::get(url).await?  -- one outbound request, counted in gets
collect_instance_get(t) ==
    /\ t[2] = "instance" /\ tasks[t].pc = "get"
    /\ \/ tasks' = [Return(t, "Err", "transport") EXCEPT ![t].gets = @ + 1]
       \/ tasks' = [tasks EXCEPT ![t].pc = "remaining", ![t].gets = @ + 1]
    /\ UNCHANGED <<INSTANCES, ACCOUNTS, requests, metrics, REGISTRY, reply>>

\* x-ratelimit-remaining: get, parse, unwrap, set
collect_instance_remaining(t) ==
    /\ t[2] = "instance" /\ tasks[t].pc = "remaining"
    /\ \E h \in RemainingHeaders :
          LET ratelimit_remaining == parse_i64(h)
          IN  IF IsSome(ratelimit_remaining)
              THEN /\ REGISTRY' = set_gauge(REGISTRY, "mastodon_ratelimit_remaining",
                                            <<InstanceOf(t)>>, ratelimit_remaining[1])
                   /\ tasks' = last_writer(
                                   [tasks EXCEPT ![t].pc = "reset",
                                       ![t].wrote = @ \cup {"mastodon_ratelimit_remaining"}],
                                   t, "mastodon_ratelimit_remaining")
              ELSE /\ tasks' = Panic(t, "header")
                   /\ UNCHANGED REGISTRY
    /\ UNCHANGED <<INSTANCES, ACCOUNTS, requests, metrics, reply>>

\* collect_instance_reset, were the status inspected before the reset header
\* is read: an error status returns Ok(()) with the reset gauge unwritten.
collect_instance_reset_status_first(t) ==
    /\ t[2] = "instance" /\ tasks[t].pc = "reset"
    /\ \E s \in Statuses, h \in ResetHeaders :
          LET ratelimit_reset == parse_rfc3339_timestamp(h)
          IN  IF is_error_status(s)
              THEN /\ tasks' = [Return(t, "Ok", "status") EXCEPT ![t].status = s]
                   /\ UNCHANGED REGISTRY
              ELSE IF IsSome(ratelimit_reset)
              THEN /\ REGISTRY' = set_gauge(REGISTRY, "mastodon_ratelimit_reset",
                                            <<InstanceOf(t)>>, ratelimit_reset[1])
                   /\ tasks' = last_writer(
                                   [tasks EXCEPT ![t].pc = "status",
                                       ![t].wrote = @ \cup {"mastodon_ratelimit_reset"}],
                                   t, "mastodon_ratelimit_reset")
              ELSE /\ tasks' = Panic(t, "header")
                   /\ UNCHANGED REGISTRY
    /\ UNCHANGED <<INSTANCES, ACCOUNTS, requests, metrics, reply>>

\* x-ratelimit-reset: get, parse, unwrap, timestamp, set
collect_instance_reset(t) ==
    /\ t[2] = "instance" /\ tasks[t].pc = "reset"
    /\ \E h \in ResetHeaders :
          LET ratelimit_reset == parse_rfc3339_timestamp(h)
          IN  IF IsSome(ratelimit_reset)
              THEN /\ REGISTRY' = set_gauge(REGISTRY, "mastodon_ratelimit_reset",
                                            <<InstanceOf(t)>>, ratelimit_reset[1])
                   /\ tasks' = last_writer(
                                   [tasks EXCEPT ![t].pc = "status",
                                       ![t].wrote = @ \cup {"mastodon_ratelimit_reset"}],
                                   t, "mastodon_ratelimit_reset")
              ELSE /\ tasks' = Panic(t, "header")
                   /\ UNCHANGED REGISTRY
    /\ UNCHANGED <<INSTANCES, ACCOUNTS, requests, metrics, reply>>

\* collect_instance_body without the error_for_status_ref check.
collect_instance_body_unchecked(t) ==
    /\ t[2] = "instance" /\ tasks[t].pc = "status"
    /\ \E s \in Statuses, b \in InstanceBodies(InstanceOf(t)) :
          IF IsSome(b)
          THEN tasks' = [tasks EXCEPT ![t].pc = "info", ![t].status = s, ![t].body = b]
          ELSE tasks' = Panic(t, "decode")
    /\ UNCHANGED <<INSTANCES, ACCOUNTS, requests, metrics, REGISTRY, reply>>

\* if let Err(err) = &response.error_for_status_ref() { return Ok(()) }
\* let body = response.json::<mastodon::InstanceResponse>().await.unwrap()
collect_instance_body(t) ==
    /\ t[2] = "instance" /\ tasks[t].pc = "status"
    /\ \E s \in Statuses :
          IF is_error_status(s)
          THEN tasks' = [Return(t, "Ok", "status") EXCEPT ![t].status = s]
          ELSE \E b \in InstanceBodies(InstanceOf(t)) :
                  IF IsSome(b)
                  THEN tasks' = [tasks EXCEPT ![t].pc = "info", ![t].status = s,
                                              ![t].body = b]
                  ELSE tasks' = Panic(t, "decode")
    /\ UNCHANGED <<INSTANCES, ACCOUNTS, requests, metrics, REGISTRY, reply>>

\* MASTODON_INFO.with_label_values(&info_labels).set(1)
collect_instance_info(t) ==
    /\ t[2] = "instance" /\ tasks[t].pc = "info"
    /\ LET body == tasks[t].body[1]
           info_labels == <<InstanceOf(t), body.domain, body.title, body.version>>
       IN  REGISTRY' = set_gauge(REGISTRY, "mastodon_info", info_labels, 1)
    /\ tasks' = [tasks EXCEPT ![t].pc = "registrations_enabled",
                    ![t].wrote = @ \cup {"mastodon_info"}]
    /\ UNCHANGED <<INSTANCES, ACCOUNTS, requests, metrics, reply>>

\* MASTODON_REGISTRATIONS_ENABLED.with_label_values(&[instance]).set(..)
collect_instance_registrations_enabled(t) ==
    /\ t[2] = "instance" /\ tasks[t].pc = "registrations_enabled"
    /\ LET registrations_enabled == i64_from_bool(tasks[t].body[1].registrations.enabled)
       IN  REGISTRY' = set_gauge(REGISTRY, "mastodon_registrations_enabled",
                                 <<InstanceOf(t)>>, registrations_enabled)
    /\ tasks' = [tasks EXCEPT ![t].pc = "registrations_approval_required",
                    ![t].wrote = @ \cup {"mastodon_registrations_enabled"}]
    /\ UNCHANGED <<INSTANCES, ACCOUNTS, requests, metrics, reply>>

\* MASTODON_REGISTRATIONS_APPROVAL_REQUIRED...set(..); Ok(())
collect_instance_registrations_approval_required(t) ==
    /\ t[2] = "instance" /\ tasks[t].pc = "registrations_approval_required"
    /\ LET registrations_approval_required ==
               i64_from_bool(tasks[t].body[1].registrations.approval_required)
       IN  REGISTRY' = set_gauge(REGISTRY, "mastodon_registrations_approval_required",
                                 <<InstanceOf(t)>>, registrations_approval_required)
    /\ tasks' = [Return(t, "Ok", "none") EXCEPT
                    ![t].wrote = @ \cup {"mastodon_registrations_approval_required"}]
    /\ UNCHANGED <<INSTANCES, ACCOUNTS, requests, metrics, reply>>

collect_instance(t) ==
    \/ collect_instance_get(t)
    \/ collect_instance_remaining(t)
    \/ collect_instance_reset(t)
    \/ collect_instance_body(t)
    \/ collect_instance_info(t)
    \/ collect_instance_registrations_enabled(t)
    \/ collect_instance_registrations_approval_required(t)

\* ------------------------------------------------------------------------
\* collect_account

\* collect_account_get, were a failed request retried once.
collect_account_get_retry(t) ==
    /\ t[2] = "account" /\ tasks[t].pc = "get"
    /\ \/ tasks[t].gets = 0 /\ tasks' = [tasks EXCEPT ![t].gets = @ + 1]
       \/ tasks[t].gets > 0
          /\ tasks' = [Return(t, "Err", "transport") EXCEPT ![t].gets = @ + 1]
       \/ tasks' = [tasks EXCEPT ![t].pc = "remaining", ![t].gets = @ + 1]
    /\ UNCHANGED <<INSTANCES, ACCOUNTS, requests, metrics, REGISTRY, reply>>

\* reqwest::get(url).await?  -- one outbound request, counted in gets
collect_account_get(t) ==
    /\ t[2] = "account" /\ tasks[t].pc = "get"
    /\ \/ tasks' = [Return(t, "Err", "transport") EXCEPT ![t].gets = @ + 1]
       \/ tasks' = [tasks EXCEPT ![t].pc = "remaining", ![t].gets = @ + 1]
    /\ UNCHANGED <<INSTANCES, ACCOUNTS, requests, metrics, REGISTRY, reply>>

\* collect_account_remaining, were the status inspected before the headers.
collect_account_remaining_status_first(t) ==
    /\ t[2] = "account" /\ tasks[t].pc = "remaining"
    /\ \E s \in Statuses, h \in RemainingHeaders :
          LET ratelimit_remaining == parse_i64(h)
          IN  IF s = NOT_FOUND
              THEN /\ tasks' = [Return(t, "Ok", "not_found") EXCEPT ![t].status = s]
                   /\ UNCHANGED REGISTRY
              ELSE IF IsSome(ratelimit_remaining)
              THEN /\ REGISTRY' = set_gauge(REGISTRY, "mastodon_ratelimit_remaining",
                                            <<InstanceOf(t)>>, ratelimit_remaining[1])
                   /\ tasks' = last_writer(
                                   [tasks EXCEPT ![t].pc = "reset",
                                       ![t].wrote = @ \cup {"mastodon_ratelimit_remaining"}],
                                   t, "mastodon_ratelimit_remaining")
              ELSE /\ tasks' = Panic(t, "header")
                   /\ UNCHANGED REGISTRY
    /\ UNCHANGED <<INSTANCES, ACCOUNTS, requests, metrics, reply>>

\* x-ratelimit-remaining: get, parse, unwrap, set
collect_account_remaining(t) ==
    /\ t[2] = "account" /\ tasks[t].pc = "remaining"
    /\ \E h \in RemainingHeaders :
          LET ratelimit_remaining == parse_i64(h)
          IN  IF IsSome(ratelimit_remaining)
              THEN /\ REGISTRY' = set_gauge(REGISTRY, "mastodon_ratelimit_remaining",
                                            <<InstanceOf(t)>>, ratelimit_remaining[1])
                   /\ tasks' = last_writer(
                                   [tasks EXCEPT ![t].pc = "reset",
                                       ![t].wrote = @ \cup {"mastodon_ratelimit_remaining"}],
                                   t, "mastodon_ratelimit_remaining")
              ELSE /\ tasks' = Panic(t, "header")
                   /\ UNCHANGED REGISTRY
    /\ UNCHANGED <<INSTANCES, ACCOUNTS, requests, metrics, reply>>

\* x-ratelimit-reset: get, parse, unwrap, timestamp, set
collect_account_reset(t) ==
    /\ t[2] = "account" /\ tasks[t].pc = "reset"
    /\ \E h \in ResetHeaders :
          LET ratelimit_reset == parse_rfc3339_timestamp(h)
          IN  IF IsSome(ratelimit_reset)
              THEN /\ REGISTRY' = set_gauge(REGISTRY, "mastodon_ratelimit_reset",
                                            <<InstanceOf(t)>>, ratelimit_reset[1])
                   /\ tasks' = last_writer(
                                   [tasks EXCEPT ![t].pc = "status",
                                       ![t].wrote = @ \cup {"mastodon_ratelimit_reset"}],
                                   t, "mastodon_ratelimit_reset")
              ELSE /\ tasks' = Panic(t, "header")
                   /\ UNCHANGED REGISTRY
    /\ UNCHANGED <<INSTANCES, ACCOUNTS, requests, metrics, reply>>

\* collect_account_body, were a body that does not decode to expire the
\* per-account series of its target.
collect_account_body_expire(t) ==
    /\ t[2] = "account" /\ tasks[t].pc = "status"
    /\ \E s \in Statuses :
          IF is_error_status(s)
          THEN /\ tasks' = [Return(t, "Ok", IF s = NOT_FOUND THEN "not_found" ELSE "status")
                               EXCEPT ![t].status = s]
               /\ UNCHANGED REGISTRY
          ELSE \E b \in AccountBodies :
                  IF IsSome(b)
                  THEN /\ tasks' = [tasks EXCEPT ![t].pc = "followers_count",
                                                 ![t].status = s, ![t].body = b]
                       /\ UNCHANGED REGISTRY
                  ELSE /\ tasks' = Panic(t, "decode")
                       /\ REGISTRY' =
                             [n \in SeriesNames |->
                                IF n \in AccountSeries
                                THEN [l \in { k \in DOMAIN REGISTRY[n] :
                                                ~(k[1] = InstanceOf(t) /\ k[2] = AccountIdOf(t)) }
                                         |-> REGISTRY[n][l]]
                                ELSE REGISTRY[n]]
    /\ UNCHANGED <<INSTANCES, ACCOUNTS, requests, metrics, reply>>

\* error_for_status_ref: NOT_FOUND and every other error status return Ok(())
\* let body = response.json::<mastodon::AccountResponse>().await.unwrap()
collect_account_body(t) ==
    /\ t[2] = "account" /\ tasks[t].pc = "status"
    /\ \E s \in Statuses :
          IF is_error_status(s)
          THEN IF s = NOT_FOUND
               THEN tasks' = [Return(t, "Ok", "not_found") EXCEPT ![t].status = s]
               ELSE tasks' = [Return(t, "Ok", "status") EXCEPT ![t].status = s]
          ELSE \E b \in AccountBodies :
                  IF IsSome(b)
                  THEN tasks' = [tasks EXCEPT ![t].pc = "followers_count",
                                              ![t].status = s, ![t].body = b]
                  ELSE tasks' = Panic(t, "decode")
    /\ UNCHANGED <<INSTANCES, ACCOUNTS, requests, metrics, REGISTRY, reply>>

\* let info_labels = [instance, account_id, username]
account_info_labels(t) == <<InstanceOf(t), AccountIdOf(t), tasks[t].body[1].username>>

\* MASTODON_ACCOUNT_FOLLOWERS_COUNT.with_label_values(&info_labels).set(..)
collect_account_followers_count(t) ==
    /\ t[2] = "account" /\ tasks[t].pc = "followers_count"
    /\ REGISTRY' = set_gauge(REGISTRY, "mastodon_account_followers_count",
                             account_info_labels(t), tasks[t].body[1].followers_count)
    /\ tasks' = [tasks EXCEPT ![t].pc = "following_count",
                    ![t].wrote = @ \cup {"mastodon_account_followers_count"}]
    /\ UNCHANGED <<INSTANCES, ACCOUNTS, requests, metrics, reply>>

\* MASTODON_ACCOUNT_FOLLOWING_COUNT.with_label_values(&info_labels).set(..)
collect_account_following_count(t) ==
    /\ t[2] = "account" /\ tasks[t].pc = "following_count"
    /\ REGISTRY' = set_gauge(REGISTRY, "mastodon_account_following_count",
                             account_info_labels(t), tasks[t].body[1].following_count)
    /\ tasks' = [tasks EXCEPT ![t].pc = "statuses_count",
                    ![t].wrote = @ \cup {"mastodon_account_following_count"}]
    /\ UNCHANGED <<INSTANCES, ACCOUNTS, requests, metrics, reply>>

\* MASTODON_ACCOUNT_STATUSES_COUNT.with_label_values(&info_labels).set(..)
collect_account_statuses_count(t) ==
    /\ t[2] = "account" /\ tasks[t].pc = "statuses_count"
    /\ REGISTRY' = set_gauge(REGISTRY, "mastodon_account_statuses_count",
                             account_info_labels(t), tasks[t].body[1].statuses_count)
    /\ tasks' = [tasks EXCEPT ![t].pc = "last_status_at",
                    ![t].wrote = @ \cup {"mastodon_account_statuses_count"}]
    /\ UNCHANGED <<INSTANCES, ACCOUNTS, requests, metrics, reply>>

\* collect_account_last_status_at, were an absent date published as 0.
collect_account_last_status_at_zero(t) ==
    /\ t[2] = "account" /\ tasks[t].pc = "last_status_at"
    /\ LET last_status_at == tasks[t].body[1].last_status_at
       IN  IF IsSome(last_status_at)
           THEN \E date \in {parse_naive_date(last_status_at[1])} :
                    IF IsSome(date)
                    THEN /\ REGISTRY' = set_gauge(REGISTRY, "mastodon_account_last_status_at",
                                                  account_info_labels(t),
                                                  midnight_timestamp(date[1]))
                         /\ tasks' = [Return(t, "Ok", "none") EXCEPT
                                         ![t].wrote = @ \cup {"mastodon_account_last_status_at"}]
                    ELSE /\ tasks' = Panic(t, "date")
                         /\ UNCHANGED REGISTRY
           ELSE /\ REGISTRY' = set_gauge(REGISTRY, "mastodon_account_last_status_at",
                                         account_info_labels(t), 0)
                /\ tasks' = [Return(t, "Ok", "none") EXCEPT
                                ![t].wrote = @ \cup {"mastodon_account_last_status_at"}]
    /\ UNCHANGED <<INSTANCES, ACCOUNTS, requests, metrics, reply>>

\* if let Some(last_status_at) = body.last_status_at { parse, set }; Ok(())
collect_account_last_status_at(t) ==
    /\ t[2] = "account" /\ tasks[t].pc = "last_status_at"
    /\ LET last_status_at == tasks[t].body[1].last_status_at
       IN  IF IsSome(last_status_at)
           THEN \E date \in {parse_naive_date(last_status_at[1])} :
                    IF IsSome(date)
                    THEN /\ REGISTRY' = set_gauge(REGISTRY, "mastodon_account_last_status_at",
                                                  account_info_labels(t),
                                                  midnight_timestamp(date[1]))
                         /\ tasks' = [Return(t, "Ok", "none") EXCEPT
                                         ![t].wrote = @ \cup {"mastodon_account_last_status_at"}]
                    ELSE /\ tasks' = Panic(t, "date")
                         /\ UNCHANGED REGISTRY
           ELSE /\ tasks' = Return(t, "Ok", "none")
                /\ UNCHANGED REGISTRY
    /\ UNCHANGED <<INSTANCES, ACCOUNTS, requests, metrics, reply>>

collect_account(t) ==
    \/ collect_account_get(t)
    \/ collect_account_remaining(t)
    \/ collect_account_reset(t)
    \/ collect_account_body(t)
    \/ collect_account_followers_count(t)
    \/ collect_account_following_count(t)
    \/ collect_account_statuses_count(t)
    \/ collect_account_last_status_at(t)

\* ------------------------------------------------------------------------
\* collect_instances / collect_accounts, as run by metrics()

\* The task of the scrape in progress at position i of a pass.
InstanceTask(i) == <<metrics.scrape, "instance", i>>

AccountTask(j) == <<metrics.scrape, "account", j>>

\* join, were the loop to stop at the first task that did not panic.
join_first_only(task, i, n) ==
    IF task.out = "Panic" THEN "Err" ELSE "Ok"

\* `task.await?.ok()` on the JoinHandle of a finished task: a panicked task
\* yields Err(JoinError), which `?` returns from the pass at once; the task's
\* own Ok / Err is discarded and the loop goes on.  Yields the pass result
\* ("Err", "Ok") or "none" while tasks remain to be awaited.
join(task, i, n) ==
    IF task.out = "Panic" THEN "Err"
    ELSE IF i = n THEN "Ok" ELSE "none"

\* A GET /metrics request arrives; metrics() calls collect_instances().
\* The finished tasks of earlier scrapes are gone (their handles were
\* awaited or dropped), and so is the reply already sent.
request ==
    /\ metrics.pc = "idle"
    /\ requests > 0
    /\ metrics.scrape < MaxScrapes
    /\ requests' = requests - 1
    /\ metrics' = [pc |-> "spawn_instances", scrape |-> metrics.scrape + 1, idx |-> 1,
                   instances |-> "none", accounts |-> "none"]
    /\ tasks' = [t \in TaskIds |-> IF Terminal(t) THEN NoTask ELSE tasks[t]]
    /\ reply' = NoReply
    /\ UNCHANGED <<INSTANCES, ACCOUNTS, REGISTRY>>

\* INSTANCES.iter().map(|instance| tokio::spawn(..)).collect(): one spawn
collect_instances_spawn ==
    /\ metrics.pc = "spawn_instances"
    /\ tasks' = [tasks EXCEPT ![InstanceTask(metrics.idx)].pc = "get"]
    /\ metrics' = IF metrics.idx = Len(INSTANCES)
                  THEN [metrics EXCEPT !.pc = "join_instances", !.idx = 1]
                  ELSE [metrics EXCEPT !.idx = @ + 1]
    /\ UNCHANGED <<INSTANCES, ACCOUNTS, requests, REGISTRY, reply>>

\* collect_instances_join, were the handles still held aborted when the
\* pass returns on a JoinError.
collect_instances_join_abort ==
    /\ metrics.pc = "join_instances"
    /\ Terminal(InstanceTask(metrics.idx))
    /\ LET r == join(tasks[InstanceTask(metrics.idx)], metrics.idx, Len(INSTANCES))
       IN  /\ metrics' = IF r = "none"
                         THEN [metrics EXCEPT !.idx = @ + 1]
                         ELSE [metrics EXCEPT !.pc = "spawn_accounts", !.idx = 1,
                                              !.instances = r]
           /\ tasks' = [t \in TaskIds |->
                           IF r = "Err" /\ t \in TasksOf(metrics.scrape) /\ InFlight(t)
                           THEN [tasks[t] EXCEPT !.pc = "done", !.out = "Err",
                                                 !.why = "cancelled", !.body = None]
                           ELSE tasks[t]]
    /\ UNCHANGED <<INSTANCES, ACCOUNTS, requests, REGISTRY, reply>>

\* for task in tasks { task.await?.ok(); } Ok(())  -- then, in metrics(),
\* `.ok()` drops the result and collect_accounts() is called.
collect_instances_join ==
    /\ metrics.pc = "join_instances"
    /\ Terminal(InstanceTask(metrics.idx))
    /\ LET r == join(tasks[InstanceTask(metrics.idx)], metrics.idx, Len(INSTANCES))
       IN  metrics' = IF r = "none"
                      THEN [metrics EXCEPT !.idx = @ + 1]
                      ELSE [metrics EXCEPT !.pc = "spawn_accounts", !.idx = 1,
                                           !.instances = r]
    /\ UNCHANGED <<INSTANCES, ACCOUNTS, requests, tasks, REGISTRY, reply>>

\* ACCOUNTS.iter().map(|(instance, account_id)| tokio::spawn(..)).collect()
collect_accounts_spawn ==
    /\ metrics.pc = "spawn_accounts"
    /\ tasks' = [tasks EXCEPT ![AccountTask(metrics.idx)].pc = "get"]
    /\ metrics' = IF metrics.idx = Len(ACCOUNTS)
                  THEN [metrics EXCEPT !.pc = "join_accounts", !.idx = 1]
                  ELSE [metrics EXCEPT !.idx = @ + 1]
    /\ UNCHANGED <<INSTANCES, ACCOUNTS, requests, REGISTRY, reply>>

\* for task in tasks { task.await?.ok(); } Ok(())  -- then `.ok()` in metrics()
collect_accounts_join ==
    /\ metrics.pc = "join_accounts"
    /\ Terminal(AccountTask(metrics.idx))
    /\ LET r == join(tasks[AccountTask(metrics.idx)], metrics.idx, Len(ACCOUNTS))
       IN  metrics' = IF r = "none"
                      THEN [metrics EXCEPT !.idx = @ + 1]
                      ELSE [metrics EXCEPT !.pc = "encode", !.idx = 1, !.accounts = r]
    /\ UNCHANGED <<INSTANCES, ACCOUNTS, requests, tasks, REGISTRY, reply>>

\* metrics_reply, were metrics() to propagate the error of a pass.
metrics_reply_propagate(instances, accounts, buffer) ==
    IF instances = "Err" \/ accounts = "Err"
    THEN [status |-> 500, body |-> {}]
    ELSE [status |-> 200, body |-> buffer]

\* The reply warp sends for what metrics() returns: Ok(String) whatever the
\* two passes returned.
metrics_reply(instances, accounts, buffer) == [status |-> 200, body |-> buffer]

\* The reply of scrape c, as sent.
Sent(c, r) == [scrape |-> c, status |-> r.status, body |-> r.body]

\* encoder.encode(&REGISTRY.gather(), &mut buffer); Ok(String::from_utf8(buffer))
metrics_encode ==
    /\ metrics.pc = "encode"
    /\ reply' = Sent(metrics.scrape,
                     metrics_reply(metrics.instances, metrics.accounts, encode(REGISTRY)))
    /\ metrics' = [metrics EXCEPT !.pc = "idle"]
    /\ UNCHANGED <<INSTANCES, ACCOUNTS, requests, tasks, REGISTRY>>

\* ------------------------------------------------------------------------

Next ==
    \/ request
    \/ collect_instances_spawn
    \/ collect_instances_join
    \/ collect_accounts_spawn
    \/ collect_accounts_join
    \/ metrics_encode
    \/ \E t \in TaskIds : collect_instance(t)
    \/ \E t \in TaskIds : collect_account(t)

Spec == Init /\ [][Next]_vars

\* Every task identifier of any configuration.
AllTaskIds ==
    { <<c, k, i>> : c \in 1..MaxScrapes, k \in {"instance", "account"}, i \in 1..2 }

\* A step of the spawned task t.
TaskStep(t) == t \in TaskIds /\ (collect_instance(t) \/ collect_account(t))

\* A step of the /metrics handler.
Handler ==
    \/ request
    \/ collect_instances_spawn
    \/ collect_instances_join
    \/ collect_accounts_spawn
    \/ collect_accounts_join
    \/ metrics_encode

\* The tokio runtime polls every task that can make progress, the handler
\* included, and every outbound request ends (response or transport error).
FairSpec == Spec /\ WF_vars(Handler) /\ \A t \in AllTaskIds : WF_vars(TaskStep(t))

\* ------------------------------------------------------------------------
\* Properties

\* The fetch ended Ok(()) after all its gauge writes.
Succeeded(t) == Terminal(t) /\ tasks[t].out = "Ok" /\ tasks[t].why = "none"

\* The task failed: it returned Err, panicked, or gave up on an error status.
Failed(t) == Terminal(t) /\ tasks[t].why # "none"

\* The snapshot `body` holds the series a successful fetch of t writes.
Published(t, body) ==
    IF t[2] = "instance"
    THEN \A n \in {"mastodon_registrations_enabled",
                   "mastodon_registrations_approval_required"} :
            \E line \in body : line[1] = n /\ line[2] = <<InstanceOf(t)>>
    ELSE \A n \in AccountSeries \ {"mastodon_account_last_status_at"} :
            \E line \in body :
               /\ line[1] = n
               /\ line[2][1] = InstanceOf(t)
               /\ line[2][2] = AccountIdOf(t)

\* C1: the registry is serialized only once every fetch task the scrape
\* launched is terminal.
C1_SerializedAfterAllFetches ==
    metrics.pc = "encode" => \A t \in TasksOf(metrics.scrape) : Terminal(t)

\* C2: a join failure is handled like a fetch that returned an error: the pass
\* does not fail, and it returns only once each of its tasks has been awaited.
C2_JoinFailureLikeFetchError ==
    /\ metrics.instances # "none" =>
          /\ metrics.instances = "Ok"
          /\ \A i \in 1..Len(INSTANCES) : Terminal(InstanceTask(i))
    /\ metrics.accounts # "none" =>
          /\ metrics.accounts = "Ok"
          /\ \A j \in 1..Len(ACCOUNTS) : Terminal(AccountTask(j))

\* C3, one step: a task in flight changes only by a step of its own, so no
\* failure and no step of the handler cancels or alters it.  (The last-writer
\* bookkeeping is no part of the task.)
C3_OwnSteps ==
    \A t \in TaskIds :
       (InFlight(t) /\ [tasks'[t] EXCEPT !.last = {}] # [tasks[t] EXCEPT !.last = {}])
          => (collect_instance(t) \/ collect_account(t))

\* C3, one state: a task in flight can always take its next step, whatever
\* became of its siblings; and when the handler serializes, both passes have
\* launched all their tasks, whatever failed.
C3_Contained ==
    /\ \A t \in TaskIds :
          InFlight(t) => ENABLED (collect_instance(t) \/ collect_account(t))
    /\ metrics.pc = "encode" => \A t \in TasksOf(metrics.scrape) : Spawned(t)
    /\ reply.scrape # 0 => reply.status = 200

C4_ReplyIsSuccess == reply.scrape # 0 => reply.status = 200

\* C4 happens: both passes returned an error and the request was answered.
C4_Witness ==
    /\ reply.scrape # 0 /\ reply.status = 200
    /\ metrics.instances = "Err" /\ metrics.accounts = "Err"

\* C5: a fetch whose rate-limit headers do not both parse updates no gauge.
C5_BadHeaderWritesNothing ==
    \A t \in TaskIds : tasks[t].why = "header" => tasks[t].wrote = {}

\* C6: when an account fetch of a scrape ended in 404, the series of every
\* target fetched successfully in that scrape are in the scrape's snapshot.
C6_NotFoundKeepsOthersPublished ==
    (/\ reply.scrape # 0
     /\ \E a \in TasksOf(reply.scrape) : tasks[a].why = "not_found")
    => \A u \in TasksOf(reply.scrape) : Succeeded(u) => Published(u, reply.body)

\* C7 as stated: no fetch waits for another target's fetch, so by the time the
\* handler awaits its first task every target of the scrape has been launched.
C7_AllTargetsLaunchedTogether ==
    metrics.pc = "join_instances" => \A t \in TasksOf(metrics.scrape) : Spawned(t)

\* C7 amended: the fetches of one pass are all spawned before any of them is
\* awaited, and the account fetches are spawned only after collect_instances
\* has returned: after every instance fetch ended, or after one panicked.
C7_PassesInSequence ==
    /\ metrics.pc = "join_instances" =>
          \A i \in 1..Len(INSTANCES) : Spawned(InstanceTask(i))
    /\ metrics.pc = "join_accounts" =>
          \A j \in 1..Len(ACCOUNTS) : Spawned(AccountTask(j))
    /\ \A t \in TaskIds :
          (t[1] = metrics.scrape /\ t[2] = "account" /\ Spawned(t)) =>
             \/ /\ metrics.instances = "Ok"
                /\ \A i \in 1..Len(INSTANCES) : Terminal(InstanceTask(i))
             \/ /\ metrics.instances = "Err"
                /\ \E i \in 1..Len(INSTANCES) : tasks[InstanceTask(i)].out = "Panic"

\* C7 happens: an account fetch is in flight, every instance fetch has ended.
C7_Witness ==
    /\ metrics.pc = "join_accounts" /\ metrics.instances = "Ok"
    /\ Len(INSTANCES) = 2
    /\ \E j \in 1..Len(ACCOUNTS) : InFlight(AccountTask(j))

\* C8: an account fetch answered 404 with well-formed rate-limit headers ends
\* Ok(()) having written both rate-limit gauges and no per-account gauge.
C8_NotFoundWritesRateLimitOnly ==
    \A t \in TaskIds :
       tasks[t].why = "not_found" =>
          /\ t[2] = "account" /\ tasks[t].status = NOT_FOUND
          /\ tasks[t].out = "Ok"
          /\ tasks[t].wrote = RateLimitSeries

\* C8 happens: an account fetch ended in 404.
C8_Witness ==
    \E t \in TaskIds :
       tasks[t].why = "not_found" /\ <<InstanceOf(t)>> \in DOMAIN REGISTRY["mastodon_ratelimit_reset"]

\* C9 as stated: a response with a non-2xx status other than 404 changes no
\* gauge of its target.
C9_ErrorStatusWritesNothing ==
    \A t \in TaskIds :
       (/\ tasks[t].status # 0
        /\ ~(tasks[t].status >= 200 /\ tasks[t].status <= 299)
        /\ tasks[t].status # NOT_FOUND)
       => tasks[t].wrote = {}

\* C9 amended: a response with a 4xx or 5xx status other than 404 (its
\* rate-limit headers having parsed) ends the fetch Ok(()) with both rate-limit
\* gauges written and no other gauge, and its join does not fail the pass.
C9_ErrorStatusWritesRateLimitOnly ==
    \A t \in TaskIds :
       (is_error_status(tasks[t].status) /\ tasks[t].status # NOT_FOUND) =>
          /\ Terminal(t) /\ tasks[t].out = "Ok"
          /\ tasks[t].wrote = RateLimitSeries
          /\ join(tasks[t], 1, 2) # "Err"

\* C9 happens: a fetch ended on a 500.
C9_Witness ==
    \E t \in TaskIds, u \in TaskIds :
       /\ t[2] = "instance" /\ u[2] = "account"
       /\ tasks[t].status = 500 /\ tasks[u].status = 500
       /\ Terminal(t) /\ Terminal(u)

\* C10: a snapshot holds at most one instance-info series per instance and at
\* most one series per account and account metric.
C10_OnlyLatestPoll ==
    reply.scrape # 0 =>
       /\ \A i \in 1..Len(INSTANCES) :
             Cardinality({ line \in reply.body :
                             line[1] = "mastodon_info" /\ line[2][1] = INSTANCES[i] }) <= 1
       /\ \A j \in 1..Len(ACCOUNTS), n \in AccountSeries :
             Cardinality({ line \in reply.body :
                             /\ line[1] = n
                             /\ line[2][1] = ACCOUNTS[j][1]
                             /\ line[2][2] = ACCOUNTS[j][2] }) <= 1

\* The (series, label tuple) cells of the registry whose value differs, or
\* which exist on one side only, between two registries.
Changed(old, new) ==
    { <<n, l>> \in UNION { { <<m, k>> : k \in DOMAIN old[m] \cup DOMAIN new[m] } :
                             m \in SeriesNames } :
         \/ l \notin DOMAIN old[n]
         \/ l \notin DOMAIN new[n]
         \/ old[n][l] # new[n][l] }

\* The lines of a snapshot for series n and label tuple l.
Lines(body, n, l) == { line \in body : line[1] = n /\ line[2] = l }

\* C11, one step: a step changes at most one cell of the registry; a write of
\* an account counter leaves in its cell exactly the value of the response,
\* whatever the cell held; and the snapshot sent is the registry as it is,
\* one line per series and label tuple.
C11_Write ==
    /\ Cardinality(Changed(REGISTRY, REGISTRY')) <= 1
    /\ \A t \in TaskIds :
          /\ (tasks[t].pc = "followers_count" /\ tasks'[t].pc = "following_count") =>
                REGISTRY'["mastodon_account_followers_count"][account_info_labels(t)]
                   = tasks[t].body[1].followers_count
          /\ (tasks[t].pc = "following_count" /\ tasks'[t].pc = "statuses_count") =>
                REGISTRY'["mastodon_account_following_count"][account_info_labels(t)]
                   = tasks[t].body[1].following_count
          /\ (tasks[t].pc = "statuses_count" /\ tasks'[t].pc = "last_status_at") =>
                REGISTRY'["mastodon_account_statuses_count"][account_info_labels(t)]
                   = tasks[t].body[1].statuses_count
    /\ (reply' # reply /\ reply'.scrape # 0) =>
          /\ reply'.body = encode(REGISTRY)
          /\ \A n \in SeriesNames : \A l \in DOMAIN REGISTRY[n] :
                Lines(reply'.body, n, l) = { <<n, l, REGISTRY[n][l]>> }

\* C11: each series holds one value per label tuple, a write replaces the
\* value of its tuple (last write wins) and touches no other, and the
\* snapshot has exactly one line per series and label tuple, carrying the
\* value last written.
C11_LastWriteWins == [][C11_Write]_vars

\* C11 happens: two fetches of one scrape wrote the rate-limit remaining gauge
\* of the same instance, and the snapshot has one line for it.
C11_Witness ==
    \E t \in TaskIds, u \in TaskIds :
       /\ t # u /\ t[1] = u[1] /\ reply.scrape = t[1]
       /\ Terminal(t) /\ Terminal(u) /\ InstanceOf(t) = InstanceOf(u)
       /\ "mastodon_ratelimit_remaining" \in tasks[t].wrote \cap tasks[u].wrote
       /\ Cardinality(Lines(reply.body, "mastodon_ratelimit_remaining",
                            <<InstanceOf(t)>>)) = 1

\* The case of C12 for instance tasks t and u of the scrape answered: t ended
\* in a transport failure, u succeeded, and no account target is configured
\* on the instance of t.
C12_Case(t, u) ==
    /\ reply.scrape # 0 /\ t[1] = reply.scrape /\ u[1] = reply.scrape
    /\ t[2] = "instance" /\ u[2] = "instance" /\ t # u
    /\ tasks[t].out = "Err" /\ tasks[t].why = "transport"
    /\ Succeeded(u)
    /\ \A j \in 1..Len(ACCOUNTS) : ACCOUNTS[j][1] # InstanceOf(t)

\* C12: of two instance targets, one answering a well-formed document and the
\* other failing at the transport (and never polled before), the reply is a
\* success, its snapshot holds the info and registration series of the first,
\* and no series of any kind labelled with the second.
C12_TransportFailureLeavesNoSeries ==
    \A t \in TaskIds, u \in TaskIds :
       C12_Case(t, u) =>
          /\ reply.status = 200
          /\ \E line \in reply.body :
                line[1] = "mastodon_info" /\ line[2][1] = InstanceOf(u) /\ line[3] = 1
          /\ Published(u, reply.body)
          /\ \A line \in reply.body : line[2][1] # InstanceOf(t)

\* C12 happens: the reply was sent after one instance failed at the transport
\* and the other succeeded.
C12_Witness ==
    \E t \in TaskIds, u \in TaskIds :
       C12_Case(t, u) /\ tasks[u].wrote = RateLimitSeries \cup InstanceSeries

\* C13 as stated: an account fetch whose body does not decode makes no gauge
\* write at all.
C13_DecodeFailureWritesNothing ==
    \A t \in TaskIds :
       (t[2] = "account" /\ tasks[t].why = "decode") => tasks[t].wrote = {}

\* C13 amended, one state: an account fetch whose body does not decode has
\* written the two rate-limit gauges of its instance and nothing else.
C13_DecodeFailureWrote ==
    \A t \in TaskIds :
       (t[2] = "account" /\ tasks[t].why = "decode") =>
          tasks[t].out = "Panic" /\ tasks[t].wrote = RateLimitSeries

\* C13 amended, one step: no step removes a label tuple from a series, and a
\* per-account cell changes only by the write of a fetch of that account whose
\* body was decoded.
C13_Frame ==
    /\ \A n \in SeriesNames : DOMAIN REGISTRY[n] \subseteq DOMAIN REGISTRY'[n]
    /\ \A c \in Changed(REGISTRY, REGISTRY') :
          c[1] \in AccountSeries =>
             \E t \in TaskIds :
                /\ t[2] = "account" /\ IsSome(tasks[t].body)
                /\ tasks[t].pc \in {"followers_count", "following_count",
                                     "statuses_count", "last_status_at"}
                /\ tasks'[t].pc # tasks[t].pc
                /\ c[2] = account_info_labels(t)

\* C13 amended: an account fetch whose body cannot be decoded writes the
\* rate-limit gauges of its instance (the headers are read first) and no
\* per-account gauge; the per-account values of earlier cycles stay as they
\* are until a fetch that decoded its body writes them; nothing ever removes
\* a series.
C13_DecodeFailureKeepsAccountSeries == [](C13_DecodeFailureWrote) /\ [][C13_Frame]_vars

\* C13 happens: the second poll of an account failed to decode while the
\* registry holds the followers count of its first poll.
C13_Witness ==
    \E t \in TaskIds :
       /\ t[1] = 2 /\ t[2] = "account" /\ tasks[t].why = "decode"
       /\ \E l \in DOMAIN REGISTRY["mastodon_account_followers_count"] :
             l[1] = InstanceOf(t) /\ l[2] = AccountIdOf(t)

\* C14, one step: the last step of an account fetch whose document has no
\* last_status_at changes nothing in the registry, and the fetch ends Ok
\* having written the rate-limit gauges and the three counters only.
C14_Step ==
    \A t \in TaskIds :
       (/\ tasks[t].pc = "last_status_at" /\ tasks'[t].pc # "last_status_at"
        /\ ~IsSome(tasks[t].body[1].last_status_at))
       => /\ REGISTRY' = REGISTRY
          /\ tasks'[t].out = "Ok" /\ tasks'[t].why = "none"
          /\ tasks'[t].wrote =
                RateLimitSeries \cup (AccountSeries \ {"mastodon_account_last_status_at"})

\* C14: an account document decoded with last_status_at absent has its
\* followers, following and statuses gauges written, and the last-status-at
\* series of its label tuple left as it was: absent or with its prior value,
\* never set to 0.
C14_AbsentDateLeavesSeries ==
    [](\A l \in DOMAIN REGISTRY["mastodon_account_last_status_at"] :
          REGISTRY["mastodon_account_last_status_at"][l] # 0)
    /\ [][C14_Step]_vars

\* C14 happens: the second poll of an account decoded a document without
\* last_status_at and ended Ok, and the series still holds the date of the
\* first poll.
C14_Witness ==
    \E t \in TaskIds :
       /\ t[1] = 2 /\ t[2] = "account" /\ Succeeded(t)
       /\ "mastodon_account_statuses_count" \in tasks[t].wrote
       /\ "mastodon_account_last_status_at" \notin tasks[t].wrote
       /\ <<InstanceOf(t), AccountIdOf(t), "alice">>
             \in DOMAIN REGISTRY["mastodon_account_last_status_at"]
       /\ REGISTRY["mastodon_account_last_status_at"]
                  [<<InstanceOf(t), AccountIdOf(t), "alice">>] = 1668988800
       /\ REGISTRY["mastodon_account_statuses_count"]
                  [<<InstanceOf(t), AccountIdOf(t), "alice">>] = 6

\* The outbound requests task t has issued, given where it stands: one once
\* it is past reqwest::get, none before.
C15_OneGet(t) ==
    IF tasks[t].pc \in {"unspawned", "get"} THEN tasks[t].gets = 0 ELSE tasks[t].gets = 1

\* C15: a scrape spawns one fetch per configured instance and account,
\* whatever earlier scrapes returned; a fetch issues one outbound request and
\* never a second, whatever the first yields.
C15_OneRequestPerTarget ==
    /\ \A t \in TaskIds : C15_OneGet(t)
    /\ metrics.pc \in {"join_accounts", "encode"} =>
          \A t \in TasksOf(metrics.scrape) : Spawned(t)
    /\ reply.scrape # 0 => \A t \in TasksOf(reply.scrape) : Spawned(t)

\* C15 happens: the second scrape was answered with every fetch of it ended,
\* one of them by a transport failure.
C15_Witness ==
    /\ reply.scrape = 2
    /\ \A t \in TasksOf(2) : Terminal(t) /\ tasks[t].gets = 1
    /\ \E t \in TasksOf(2) : tasks[t].why = "transport"

\* C16: every value of the registrations-enabled and of the
\* registrations-approval-required gauge is 0 or 1, for every instance label.
C16_RegistrationsAreBoolean ==
    \A n \in {"mastodon_registrations_enabled",
               "mastodon_registrations_approval_required"} :
       \A l \in DOMAIN REGISTRY[n] : REGISTRY[n][l] \in {0, 1}

\* C16 happens: both gauges of one instance are written, one 1 and one 0, and
\* those of another instance the other way round.
C16_Witness ==
    \E i \in 1..Len(INSTANCES), k \in 1..Len(INSTANCES) :
       /\ <<INSTANCES[i]>> \in DOMAIN REGISTRY["mastodon_registrations_approval_required"]
       /\ <<INSTANCES[k]>> \in DOMAIN REGISTRY["mastodon_registrations_approval_required"]
       /\ REGISTRY["mastodon_registrations_enabled"][<<INSTANCES[i]>>] = 1
       /\ REGISTRY["mastodon_registrations_approval_required"][<<INSTANCES[i]>>] = 0
       /\ REGISTRY["mastodon_registrations_enabled"][<<INSTANCES[k]>>] = 0
       /\ REGISTRY["mastodon_registrations_approval_required"][<<INSTANCES[k]>>] = 1

\* The fetch t has come to inspect the status of its response, or is past it.
C17_AtStatus(t) ==
    \/ tasks[t].pc = "status"
    \/ tasks[t].status # 0
    \/ tasks[t].why \in {"status", "not_found", "decode"}

\* C17: when a fetch inspects the status of its response, whatever that
\* status, it has read both rate-limit headers and written both rate-limit
\* gauges of its instance.
C17_HeadersBeforeStatus ==
    \A t \in TaskIds :
       C17_AtStatus(t) =>
          /\ RateLimitSeries \subseteq tasks[t].wrote
          /\ <<InstanceOf(t)>> \in DOMAIN REGISTRY["mastodon_ratelimit_remaining"]
          /\ <<InstanceOf(t)>> \in DOMAIN REGISTRY["mastodon_ratelimit_reset"]

\* C17 happens: an instance fetch answered 500, an account fetch answered 404
\* and an account fetch answered 200 have all written both rate-limit gauges.
C17_Witness ==
    \E t \in TaskIds, u \in TaskIds, v \in TaskIds :
       /\ t[2] = "instance" /\ tasks[t].status = 500
       /\ u[2] = "account" /\ tasks[u].status = NOT_FOUND
       /\ v[2] = "account" /\ tasks[v].status = 200
       /\ \A w \in {t, u, v} : tasks[w].wrote = RateLimitSeries

\* C18, as to safety: a scrape request is answered only once every fetch it
\* launched is terminal (so a fetch that never ends keeps the reply pending).
C18_AnsweredOnceAllTerminal ==
    reply.scrape # 0 => \A t \in TasksOf(reply.scrape) : Terminal(t)

\* C18, as to liveness (under FairSpec): every scrape request being handled
\* is eventually answered.
C18_EventuallyAnswered == (metrics.pc # "idle") ~> (metrics.pc = "idle")

\* ------------------------------------------------------------------------
\* last_status_at over the calendar

\* The decimal digit of value v.
DigitOf(v) == CHOOSE c \in Digits : DigitVal(c) = v

\* A date as the server writes it: YYYY-MM-DD.
FormatDate(y, m, d) ==
    << DigitOf(y \div 1000), DigitOf((y \div 100) % 10), DigitOf((y \div 10) % 10),
       DigitOf(y % 10), "-", DigitOf(m \div 10), DigitOf(m % 10), "-",
       DigitOf(d \div 10), DigitOf(d % 10) >>

\* Year, month and day numbers a last_status_at may be written from: leap and
\* common years, century years, every month, the days at which months end;
\* some of the combinations are no calendar date.
DateYears == {1970, 1972, 1999, 2000, 2022, 2024, 2037}

DateMonths == 1..12

DateDays == {1, 21, 28, 29, 30, 31}

\* The state in which the account fetch of the first scrape has decoded a
\* document and written its counters, last_status_at being any of the dates
\* above; the instance fetch failed at the transport.
DateInit ==
    \E y \in DateYears, m \in DateMonths, d \in DateDays :
       LET doc == [username |-> "alice", followers_count |-> 100,
                   following_count |-> 10, statuses_count |-> 5,
                   last_status_at |-> Some(FormatDate(y, m, d))]
           labels == <<"mas.to", "1", "alice">>
           r1 == set_gauge([n \in SeriesNames |-> [l \in {} |-> 0]],
                           "mastodon_ratelimit_remaining", <<"mas.to">>, 299)
           r2 == set_gauge(r1, "mastodon_ratelimit_reset", <<"mas.to">>, 1668989100)
           r3 == set_gauge(r2, "mastodon_account_followers_count", labels, 100)
           r4 == set_gauge(r3, "mastodon_account_following_count", labels, 10)
           r5 == set_gauge(r4, "mastodon_account_statuses_count", labels, 5)
       IN  /\ INSTANCES = <<"mas.to">>
           /\ ACCOUNTS = << <<"mas.to", "1">> >>
           /\ requests = MaxScrapes - 1
           /\ metrics = [pc |-> "join_accounts", scrape |-> 1, idx |-> 1,
                         instances |-> "Ok", accounts |-> "none"]
           /\ tasks = [t \in TaskIds |->
                         IF t = <<1, "instance", 1>>
                         THEN [NoTask EXCEPT !.pc = "done", !.out = "Err",
                                             !.why = "transport", !.gets = 1]
                         ELSE IF t = <<1, "account", 1>>
                         THEN [NoTask EXCEPT !.pc = "last_status_at", !.gets = 1,
                                  !.status = 200, !.body = Some(doc),
                                  !.last = RateLimitSeries,
                                  !.wrote = RateLimitSeries \cup
                                     (AccountSeries \ {"mastodon_account_last_status_at"})]
                         ELSE NoTask]
           /\ REGISTRY = r5
           /\ reply = NoReply

DateNext ==
    \/ \E t \in TaskIds : collect_account_last_status_at(t)
    \/ collect_accounts_join
    \/ metrics_encode

DateSpec == DateInit /\ [][DateNext]_vars

\* The lengths of the twelve months of year y.
MonthLengths(y) ==
    LET leap == y % 4 = 0 /\ (y % 100 # 0 \/ y % 400 = 0)
    IN  <<31, IF leap THEN 29 ELSE 28, 31, 30, 31, 30, 31, 31, 30, 31, 30, 31>>

RECURSIVE DaysOfYears(_, _)
\* The days of the years from..to-1.
DaysOfYears(from, to) ==
    IF from >= to THEN 0
    ELSE MonthLengths(from)[2] + 337 + DaysOfYears(from + 1, to)

RECURSIVE DaysOfMonths(_, _)
\* The days of the months 1..m-1 of year y.
DaysOfMonths(y, m) ==
    IF m <= 1 THEN 0 ELSE MonthLengths(y)[m - 1] + DaysOfMonths(y, m - 1)

\* Days from 1970-01-01 to y-m-d, counted year by year and month by month.
DaysSince1970(y, m, d) == DaysOfYears(1970, y) + DaysOfMonths(y, m) + d - 1

\* C19, one step: the write of last_status_at, for a text YYYY-MM-DD that is
\* a calendar date, ends the fetch Ok and leaves in the series the number of
\* days from 1970-01-01 to that date times 86400.
C19_Step ==
    \A t \in TaskIds :
       (/\ tasks[t].pc = "last_status_at" /\ tasks'[t].pc = "done"
        /\ IsSome(tasks[t].body[1].last_status_at)) =>
          \A y \in DateYears, m \in DateMonths, d \in DateDays :
             (/\ tasks[t].body[1].last_status_at[1] = FormatDate(y, m, d)
              /\ d <= MonthLengths(y)[m]) =>
                /\ tasks'[t].out = "Ok"
                /\ REGISTRY'["mastodon_account_last_status_at"][account_info_labels(t)]
                      = DaysSince1970(y, m, d) * 86400

\* C19: a last_status_at given as a calendar date YYYY-MM-DD is published as
\* the Unix timestamp of midnight UTC of that date.
C19_MidnightUtc == [][C19_Step]_vars

\* C19 happens: the snapshot publishes 1668988800 for 2022-11-21.
C19_Witness ==
    /\ reply.scrape = 1
    /\ <<"mastodon_account_last_status_at", <<"mas.to", "1", "alice">>, 1668988800>>
          \in reply.body
    /\ DaysSince1970(2022, 11, 21) * 86400 = 1668988800

\* C20: once a scrape is answered with all its fetches ended and none
\* panicked, the rate-limit remaining and reset values of an instance, as far
\* as fetches of that scrape wrote them last, were written by one and the same
\* fetch: they come from one response.
C20_OneRateLimitSample ==
    (/\ reply.scrape # 0
     /\ \A t \in TasksOf(reply.scrape) : Terminal(t) /\ tasks[t].out # "Panic")
    => \A t \in TasksOf(reply.scrape), u \in TasksOf(reply.scrape) :
          (/\ InstanceOf(t) = InstanceOf(u)
           /\ tasks[t].last # {} /\ tasks[u].last # {}) => t = u

\* The fetches that ended in a transport failure: the GET returned an error,
\* the one request was made, and the fetch wrote no series.
C21_Ended ==
    \A t \in TaskIds :
       tasks[t].why = "transport" =>
          /\ tasks[t].out = "Err" /\ tasks[t].gets = 1
          /\ tasks[t].wrote = {} /\ tasks[t].last = {}

\* C21, one step: the step by which a fetch ends in a transport failure is the
\* GET of a fetch that has written nothing, and it leaves every cell of the
\* registry, the rate-limit gauges of its instance included, as it was.
C21_Step ==
    \A t \in TaskIds :
       (tasks[t].why # "transport" /\ tasks'[t].why = "transport") =>
          /\ tasks[t].pc = "get" /\ tasks[t].wrote = {}
          /\ REGISTRY' = REGISTRY

\* C21: a fetch whose GET fails before any response is received performs no
\* registry write at all: every series value, the rate-limit gauges of its
\* instance included, is after the fetch what it was before it.
C21_TransportFailureWritesNothing == [](C21_Ended) /\ [][C21_Step]_vars

\* C21 happens: an instance fetch and an account fetch of the second scrape
\* ended in a transport failure while the registry holds the rate-limit
\* gauges their instances got in an earlier poll.
C21_Witness ==
    \E t \in TaskIds, u \in TaskIds :
       /\ t[1] = 2 /\ t[2] = "instance" /\ u[1] = 2 /\ u[2] = "account"
       /\ tasks[t].why = "transport" /\ tasks[u].why = "transport"
       /\ <<InstanceOf(t)>> \in DOMAIN REGISTRY["mastodon_ratelimit_remaining"]
       /\ <<InstanceOf(t)>> \in DOMAIN REGISTRY["mastodon_ratelimit_reset"]
       /\ <<InstanceOf(u)>> \in DOMAIN REGISTRY["mastodon_ratelimit_remaining"]

====
